---- MODULE Spec2Model ----
(***************************************************************************)
(* A model of emailService.js: MockEmailProvider, CircuitBreaker,          *)
(* EmailService (rate limit, retry with backoff, fallback), EmailQueue     *)
(* (enqueue / processQueue) and the sendEmailButton click handler.         *)
(*                                                                         *)
(* Time is the value of Date.now() in milliseconds.  An action is one      *)
(* synchronous run of the JavaScript code: from the resumption of a        *)
(* suspended async function (a timer firing or an awaited promise          *)
(* settling) to the next await that suspends it.                           *)
(***************************************************************************)
EXTENDS Integers, Sequences, FiniteSets

\* ---------------------------------------------------------------- bounds

\* Date.now() at construction, and the last clock value explored by Spec,
\* SpecLong (three exhausted dispatches take 90 s), SpecClick, SpecOneClick
\* (one exhausted dispatch takes 30 s) and SpecApi.
StartTime == 20000
MaxTime == 56000
LongMaxTime == 112000
ClickMaxTime == 26000
OneClickMaxTime == 51000
ApiMaxTime == 52000
\* SpecLive: enqueue calls, and the clock value after which the clock moves
\* only while a timer is pending.
LiveMaxEnq == 3
LiveMaxTime == 22000
\* Clock granularity: Date.now() is observed every TickMs milliseconds.
TickMs == 1000
\* How late a timer may fire in Spec (in the other specifications timers
\* fire at the first observed clock value at which they are due).
MaxLate == 1000
\* Calls of EmailQueue.enqueue, processQueue invocations that can coexist,
\* clicks on sendEmailButton, external calls of circuitBreaker.recordFailure.
MaxEnq == 3
ApiMaxEnq == 2
MaxLoops == 2
MaxClicks == 2
\* Clicks in SpecOneClick, which follows a click's call to its end.
FewClicks == 1
MaxExtFail == 3

\* ------------------------------------------------------ program constants

MAX_RETRIES == 5
RETRY_DELAY_MS == 1000
RATE_LIMIT_MS == 2000
failureThreshold == 3
resetTimeout == 10000
\* lastFailureTime = null (line 24); in arithmetic null converts to 0.
Null == -1
ToNumber(v) == IF v = Null THEN 0 ELSE v

RECURSIVE Pow2(_)
Pow2(n) == IF n <= 0 THEN 1 ELSE 2 * Pow2(n - 1)

VARIABLES
    now,          \* Date.now()
    queue,        \* EmailQueue.queue
    isProcessing, \* EmailQueue.isProcessing
    engine,       \* the EmailService passed to enqueue
    loops,        \* the processQueue invocations (their sendEmail frames)
    enqueued,     \* history: the emails passed to enqueue, in call order
    dispatched,   \* history: the emails passed to emailService.sendEmail
    clicks,       \* the click handler invocations: own EmailService + frame
    extFails      \* history: external calls of circuitBreaker.recordFailure

vars == <<now, queue, isProcessing, engine, loops, enqueued, dispatched,
          clicks, extFails>>

\* ------------------------------------------------------- CircuitBreaker

NewCircuitBreaker == [failureCount |-> 0, lastFailureTime |-> Null]

Reset(cb) == [cb EXCEPT !.failureCount = 0]

\* Mutant of ShouldAttempt: the timeout test is >= resetTimeout.
ShouldAttemptAtTimeout(cb, t) ==
    IF cb.failureCount >= failureThreshold
    THEN IF t - ToNumber(cb.lastFailureTime) >= resetTimeout
         THEN [ret |-> TRUE, cb |-> Reset(cb)]
         ELSE [ret |-> FALSE, cb |-> cb]
    ELSE [ret |-> TRUE, cb |-> cb]

\* shouldAttempt(): the returned value and the breaker afterwards.
ShouldAttempt(cb, t) ==
    IF cb.failureCount >= failureThreshold
    THEN IF t - ToNumber(cb.lastFailureTime) > resetTimeout
         THEN [ret |-> TRUE, cb |-> Reset(cb)]
         ELSE [ret |-> FALSE, cb |-> cb]
    ELSE [ret |-> TRUE, cb |-> cb]

RecordFailure(cb, t) ==
    [cb EXCEPT !.failureCount = @ + 1, !.lastFailureTime = t]

\* --------------------------------------------------------- EmailService

NewEmailService ==
    [lastSendTime |-> 0, statusTracking |-> <<>>,
     circuitBreaker |-> NewCircuitBreaker,
     nSends |-> 0,        \* history: assignments to lastSendTime
     outcomes |-> <<>>]   \* history: the outcomes sendEmail returned

\* One invocation of sendEmail.  provider/attempt are the arguments of the
\* innermost sendEmailWithProvider; wake is the pending timer's due time.
\* History of the current call: cntA/cntB count the provider.sendEmail calls
\* on each provider, okProv is the provider whose attempt succeeded, lastProv
\* the provider last called, firstAttempt the time of the first provider
\* call, rateWaited whether rateLimit suspended, rateSteps the completed
\* rateLimit calls, breakerEvals the values shouldAttempt returned, waits the
\* backoff delays started.  pc = "threw" is sendEmail rejecting.
IdleFrame ==
    [pc |-> "idle", provider |-> "none", attempt |-> 0, wake |-> 0,
     result |-> <<>>, cntA |-> 0, cntB |-> 0, okProv |-> "none",
     lastProv |-> "none", firstAttempt |-> Null, rateWaited |-> FALSE,
     rateSteps |-> 0, breakerEvals |-> <<>>, waits |-> 0]

\* provider.sendEmail(email) is invoked (line 82); sendEmailWithProvider
\* awaits its result.
CallProvider(c, p, k, t) ==
    [c EXCEPT !.f.pc = "called", !.f.provider = p, !.f.attempt = k,
              !.f.cntA = IF p = "ProviderA" THEN @ + 1 ELSE @,
              !.f.cntB = IF p = "ProviderB" THEN @ + 1 ELSE @,
              !.f.lastProv = p,
              !.f.firstAttempt = IF @ = Null THEN t ELSE @]

\* line 74
RateLimitEnd(c, t) ==
    [c EXCEPT !.e.lastSendTime = t, !.e.nSends = @ + 1, !.f.pc = "rateDone",
              !.f.rateSteps = @ + 1]

\* Mutant of RateLimitStart: the elapsed-time test never suspends.
RateLimitStartNoWait(c, t) == RateLimitEnd(c, t)

\* rateLimit() up to its await (lines 70-73)
RateLimitStart(c, t) ==
    LET elapsed == t - c.e.lastSendTime
    IN  IF elapsed < RATE_LIMIT_MS
        THEN [c EXCEPT !.f.pc = "rateWait", !.f.rateWaited = TRUE,
                       !.f.wake = t + (RATE_LIMIT_MS - elapsed)]
        ELSE RateLimitEnd(c, t)

\* sendEmail(email) is called: a fresh frame, then rateLimit (line 99).
StartSendEmail(e, t) == RateLimitStart([e |-> e, f |-> IdleFrame], t)

\* sendEmail returns status (lines 115-116)
TrackAndReturn(c, status) ==
    [c EXCEPT !.e.statusTracking = Append(@, status),
              !.e.outcomes = Append(@, status),
              !.f.result = <<status>>, !.f.pc = "returned"]

\* Mutant of AfterProvider: the fallback continues the primary's attempt
\* counter instead of starting again at 1.
AfterProviderKeepsCount(c, status, t) ==
    IF c.f.provider = "ProviderA" /\ ~status.success
    THEN CallProvider(c, "ProviderB", c.f.attempt + 1, t)
    ELSE TrackAndReturn(c, status)

\* sendEmail after sendEmailWithProvider(providerA/B) returned (109-116)
AfterProvider(c, status, t) ==
    IF c.f.provider = "ProviderA" /\ ~status.success
    THEN CallProvider(c, "ProviderB", 1, t)
    ELSE TrackAndReturn(c, status)

ErrorMessage(p) == "Failed to send email via " \o p

\* Mutant of OnAttemptFailure: the last failure is rethrown, not recorded.
OnAttemptFailureRethrows(c, t) ==
        IF c.f.attempt < MAX_RETRIES
        THEN [c EXCEPT !.f.pc = "backoff", !.f.waits = @ + 1,
                       !.f.wake = t + RETRY_DELAY_MS * Pow2(c.f.attempt - 1)]
        ELSE [c EXCEPT !.f.pc = "threw"]

\* Mutant of OnAttemptFailure: the retry test is attempt <= MAX_RETRIES.
OnAttemptFailureOneMore(c, t) ==
        IF c.f.attempt <= MAX_RETRIES
        THEN [c EXCEPT !.f.pc = "backoff", !.f.waits = @ + 1,
                       !.f.wake = t + RETRY_DELAY_MS * Pow2(c.f.attempt - 1)]
        ELSE AfterProvider(c,
                 [success |-> FALSE, provider |-> c.f.provider,
                  attemptCount |-> c.f.attempt,
                  errorMessage |-> ErrorMessage(c.f.provider)], t)

\* Mutant of OnAttemptFailure: the backoff exponent is attempt, not
\* attempt - 1.
OnAttemptFailureDelayDoubled(c, t) ==
        IF c.f.attempt < MAX_RETRIES
        THEN [c EXCEPT !.f.pc = "backoff", !.f.waits = @ + 1,
                       !.f.wake = t + RETRY_DELAY_MS * Pow2(c.f.attempt)]
        ELSE AfterProvider(c,
                 [success |-> FALSE, provider |-> c.f.provider,
                  attemptCount |-> c.f.attempt,
                  errorMessage |-> ErrorMessage(c.f.provider)], t)

\* The catch block of sendEmailWithProvider (lines 84-92) and line 94.
OnAttemptFailure(c, t) ==
        IF c.f.attempt < MAX_RETRIES
        THEN [c EXCEPT !.f.pc = "backoff", !.f.waits = @ + 1,
                       !.f.wake = t + RETRY_DELAY_MS * Pow2(c.f.attempt - 1)]
        ELSE AfterProvider(c,
                 [success |-> FALSE, provider |-> c.f.provider,
                  attemptCount |-> c.f.attempt,
                  errorMessage |-> ErrorMessage(c.f.provider)], t)

\* Mutant of AttemptResult: status.success is not set from the result.
AttemptResultDropsSuccess(c, ok, t) ==
    IF ok
    THEN AfterProvider([c EXCEPT !.f.okProv = c.f.provider],
             [success |-> FALSE, provider |-> c.f.provider,
              attemptCount |-> c.f.attempt], t)
    ELSE OnAttemptFailure(c, t)

\* provider.sendEmail settles: ok = it returned true, ~ok = it threw
\* (lines 9-14, 79-94).
AttemptResult(c, ok, t) ==
    IF ok
    THEN AfterProvider([c EXCEPT !.f.okProv = c.f.provider],
             [success |-> TRUE, provider |-> c.f.provider,
              attemptCount |-> c.f.attempt], t)
    ELSE OnAttemptFailure(c, t)

\* Mutant of BackoffResume: the breaker is evaluated again before a retry.
BackoffResumeRechecks(c, t) ==
    LET r == ShouldAttempt(c.e.circuitBreaker, t)
        c1 == [c EXCEPT !.e.circuitBreaker = r.cb,
                        !.f.breakerEvals = Append(@, r.ret)]
    IN  IF ~r.ret
        THEN [c1 EXCEPT !.f.result = <<[success |-> FALSE,
                                        errorMessage |-> "Circuit breaker is open"]>>,
                        !.f.pc = "returned"]
        ELSE CallProvider(c1, c.f.provider, c.f.attempt + 1, t)

\* The backoff timer fired: the recursive call (line 88).
BackoffResume(c, t) == CallProvider(c, c.f.provider, c.f.attempt + 1, t)

CircuitOpenOutcome == [success |-> FALSE, errorMessage |-> "Circuit breaker is open"]

\* Mutant of SendEmailResume: the value of shouldAttempt() is not tested.
SendEmailResumeIgnoresBreaker(c, t) ==
    LET r == ShouldAttempt(c.e.circuitBreaker, t)
        c1 == [c EXCEPT !.e.circuitBreaker = r.cb,
                        !.f.breakerEvals = Append(@, r.ret)]
    IN  CallProvider(c1, "ProviderA", 1, t)

\* sendEmail after rateLimit (lines 101-107)
SendEmailResume(c, t) ==
    LET r == ShouldAttempt(c.e.circuitBreaker, t)
        c1 == [c EXCEPT !.e.circuitBreaker = r.cb,
                        !.f.breakerEvals = Append(@, r.ret)]
    IN  IF ~r.ret
        THEN [c1 EXCEPT !.e.outcomes = Append(@, CircuitOpenOutcome),
                        !.f.result = <<CircuitOpenOutcome>>,
                        !.f.pc = "returned"]
        ELSE CallProvider(c1, "ProviderA", 1, t)

\* A frame suspended on a settled promise resumes before the clock moves; a
\* frame suspended on a timer (setTimeout, line 65) resumes no earlier than
\* the timer is due and at most `late` ms after it.
Runnable(f, t, late) ==
    \/ f.pc \in {"rateDone", "called", "returned"}
    \/ f.pc \in {"rateWait", "backoff"} /\ t >= f.wake + late

\* ----------------------------------------------------------- EmailQueue

\* Mutant of Shift: pop() instead of shift().
ShiftFromEnd(q) == [email |-> q[Len(q)], rest |-> SubSeq(q, 1, Len(q) - 1)]

\* Mutant of ShouldStartDrain: enqueue never starts processQueue.
ShouldStartDrainNever(flag) == FALSE

\* Mutant of ShouldStartDrain: isProcessing is not consulted.
ShouldStartDrainAlways(flag) == TRUE

\* this.queue.push(email) (line 129) and this.queue.shift() (line 139)
Push(q, email) == Append(q, email)
Shift(q) == [email |-> Head(q), rest |-> Tail(q)]

\* the test of line 130
ShouldStartDrain(flag) == ~flag

ActiveLoops == {i \in 1..MaxLoops : loops[i].pc # "idle"}

\* Mutant of ProcessQueueLoop: isProcessing is not cleared after the loop.
ProcessQueueLoopKeepsFlag(i, q) ==
    IF Len(q) > 0
    THEN LET sh == Shift(q)
             c == StartSendEmail(engine, now)
         IN  /\ queue' = sh.rest
             /\ dispatched' = Append(dispatched, sh.email)
             /\ engine' = c.e
             /\ loops' = [loops EXCEPT ![i] = c.f]
             /\ isProcessing' = TRUE
    ELSE /\ isProcessing' = isProcessing
         /\ loops' = [loops EXCEPT ![i] = IdleFrame]
         /\ queue' = q
         /\ UNCHANGED <<dispatched, engine>>

\* processQueue from its loop test (lines 138-143), run by invocation i on
\* queue q: shift the head and call sendEmail up to its first await, or
\* leave the loop and clear isProcessing.
ProcessQueueLoop(i, q) ==
    IF Len(q) > 0
    THEN LET sh == Shift(q)
             c == StartSendEmail(engine, now)
         IN  /\ queue' = sh.rest
             /\ dispatched' = Append(dispatched, sh.email)
             /\ engine' = c.e
             /\ loops' = [loops EXCEPT ![i] = c.f]
             /\ isProcessing' = TRUE
    ELSE /\ isProcessing' = FALSE
         /\ loops' = [loops EXCEPT ![i] = IdleFrame]
         /\ queue' = q
         /\ UNCHANGED <<dispatched, engine>>

\* enqueue(emailService, email) (lines 128-133); when no drain is flagged it
\* calls processQueue (a new invocation i), which sets isProcessing (line
\* 137) and runs to its first await.
Enqueue(limit) ==
    /\ Len(enqueued) < limit
    /\ LET email == Len(enqueued) + 1
           q1 == Push(queue, email)
       IN  /\ enqueued' = Append(enqueued, email)
           /\ IF ShouldStartDrain(isProcessing)
              THEN \E i \in 1..MaxLoops :
                     /\ loops[i].pc = "idle"
                     /\ \A j \in 1..(i - 1) : loops[j].pc # "idle"
                     /\ ProcessQueueLoop(i, q1)
              ELSE /\ queue' = q1
                   /\ UNCHANGED <<isProcessing, engine, loops, dispatched>>
    /\ UNCHANGED <<now, clicks, extFails>>

QCtx(i) == [e |-> engine, f |-> loops[i]]

QPut(i, c) ==
    /\ engine' = c.e
    /\ loops' = [loops EXCEPT ![i] = c.f]
    /\ UNCHANGED <<now, queue, isProcessing, enqueued, dispatched, clicks, extFails>>

\* the rate-limit timer fires (line 72 -> 74)
QRateLimitResume(i) ==
    /\ loops[i].pc = "rateWait" /\ now >= loops[i].wake
    /\ QPut(i, RateLimitEnd(QCtx(i), now))

\* sendEmail resumes after rateLimit (lines 99 -> 101-107)
QSendEmailResume(i) ==
    /\ loops[i].pc = "rateDone"
    /\ QPut(i, SendEmailResume(QCtx(i), now))

\* a provider attempt settles (line 82 -> 83 or 84-92, 109-116)
QAttemptResult(i) ==
    /\ loops[i].pc = "called"
    /\ \E ok \in BOOLEAN : QPut(i, AttemptResult(QCtx(i), ok, now))

\* the backoff timer fires (line 87 -> 88)
QBackoffResume(i) ==
    /\ loops[i].pc = "backoff" /\ now >= loops[i].wake
    /\ QPut(i, BackoffResume(QCtx(i), now))

\* processQueue resumes after await sendEmail (line 141 -> 138)
QProcessQueueResume(i) ==
    /\ loops[i].pc = "returned"
    /\ ProcessQueueLoop(i, queue)
    /\ UNCHANGED <<now, enqueued, clicks, extFails>>

QueueStep ==
    \E i \in 1..MaxLoops :
         \/ QRateLimitResume(i)
         \/ QSendEmailResume(i)
         \/ QAttemptResult(i)
         \/ QBackoffResume(i)
         \/ QProcessQueueResume(i)

\* ------------------------------------------------- click handler, 147-158

CPut(i, c) ==
    /\ clicks' = [clicks EXCEPT ![i] = c]
    /\ UNCHANGED <<now, queue, isProcessing, engine, loops, enqueued,
                   dispatched, extFails>>

\* a click: new EmailService(), then sendEmail up to its first await
Click(i) ==
    /\ clicks[i].f.pc = "notClicked"
    /\ \A j \in 1..(i - 1) : clicks[j].f.pc # "notClicked"
    /\ CPut(i, StartSendEmail(NewEmailService, now))

\* A new EmailService has lastSendTime = 0, so rateLimit (line 71) does not
\* suspend a click's only call: there is no rate-limit timer to resume.
CSendEmailResume(i) ==
    /\ clicks[i].f.pc = "rateDone"
    /\ CPut(i, SendEmailResume(clicks[i], now))

CAttemptResult(i) ==
    /\ clicks[i].f.pc = "called"
    /\ \E ok \in BOOLEAN : CPut(i, AttemptResult(clicks[i], ok, now))

CBackoffResume(i) ==
    /\ clicks[i].f.pc = "backoff" /\ now >= clicks[i].f.wake
    /\ CPut(i, BackoffResume(clicks[i], now))

\* the handler resumes with result and renders it (lines 150-157)
ClickResume(i) ==
    /\ clicks[i].f.pc = "returned"
    /\ CPut(i, [clicks[i] EXCEPT !.f.pc = "done"])

ClickStep(n) ==
    \E i \in 1..n :
        \/ Click(i)
        \/ CSendEmailResume(i)
        \/ CAttemptResult(i)
        \/ CBackoffResume(i)
        \/ ClickResume(i)

\* circuitBreaker.recordFailure() called on the queue's engine from outside
\* EmailService (the method and the field are public; lines 38-41, 60).
ExtRecordFailure ==
    /\ extFails < MaxExtFail
    /\ extFails' = extFails + 1
    /\ engine' = [engine EXCEPT !.circuitBreaker = RecordFailure(@, now)]
    /\ UNCHANGED <<now, queue, isProcessing, loops, enqueued, dispatched, clicks>>

\* Date.now() advances, up to limit.
Tick(limit, late) ==
    /\ now + TickMs <= limit
    /\ \A i \in 1..MaxLoops : ~Runnable(loops[i], now, late)
    /\ \A i \in 1..MaxClicks : ~Runnable(clicks[i].f, now, late)
    /\ now' = now + TickMs
    /\ UNCHANGED <<queue, isProcessing, engine, loops, enqueued, dispatched,
                   clicks, extFails>>

\* FewClicks <= MaxClicks: clicks has an entry for every click modelled.
Init ==
    /\ now = StartTime
    /\ queue = <<>>
    /\ isProcessing = FALSE
    /\ engine = NewEmailService
    /\ loops = [i \in 1..MaxLoops |-> IdleFrame]
    /\ enqueued = <<>>
    /\ dispatched = <<>>
    /\ clicks = [i \in 1..MaxClicks |->
                    [e |-> NewEmailService,
                     f |-> [IdleFrame EXCEPT !.pc = "notClicked"]]]
    /\ extFails = 0

Next == Enqueue(MaxEnq) \/ QueueStep \/ Tick(MaxTime, MaxLate)

Spec == Init /\ [][Next]_vars

\* The queue over a clock long enough for three exhausted dispatches.
NextLong == Enqueue(MaxEnq) \/ QueueStep \/ Tick(LongMaxTime, 0)

SpecLong == Init /\ [][NextLong]_vars

\* The click handler alone: every click has its own EmailService.
NextClick == ClickStep(MaxClicks) \/ Tick(ClickMaxTime, 0)

SpecClick == Init /\ [][NextClick]_vars

\* The click handler over a clock long enough for a call to exhaust both
\* providers.
NextOneClick == ClickStep(FewClicks) \/ Tick(OneClickMaxTime, 0)

SpecOneClick == Init /\ [][NextOneClick]_vars

\* The queue under the event loop's scheduling: a settled promise's
\* continuation and a due timer's callback are eventually run, and the clock
\* keeps moving while a timer is pending.
TimerPending == \E i \in 1..MaxLoops :
                    loops[i].pc \in {"rateWait", "backoff"} /\ now < loops[i].wake

LiveLimit == IF TimerPending THEN now + TickMs ELSE LiveMaxTime

NextLive == Enqueue(LiveMaxEnq) \/ QueueStep \/ Tick(LiveLimit, 0)

SpecLive ==
    /\ Init /\ [][NextLive]_vars
    /\ WF_vars(QueueStep)
    /\ WF_vars(Tick(LiveLimit, 0))

\* The queue with a caller that also drives the breaker's recordFailure.
NextApi ==
    Enqueue(ApiMaxEnq) \/ QueueStep \/ ExtRecordFailure \/ Tick(ApiMaxTime, 0)

SpecApi == Init /\ [][NextApi]_vars

\* ------------------------------------------------------------- claims

LoopFrames == {loops[i] : i \in 1..MaxLoops}
Returned(f) == f.pc = "returned" /\ Len(f.result) = 1
HasProvider(r) == "provider" \in DOMAIN r
HasError(r) == "errorMessage" \in DOMAIN r

\* C1: the emails passed to sendEmail are at every moment a prefix of the
\* emails enqueued, and the pending queue is exactly the rest: dispatch is in
\* arrival order, each email at most once, none skipped.
C1_FifoPrefix ==
    /\ Len(dispatched) <= Len(enqueued)
    /\ \A k \in 1..Len(dispatched) : dispatched[k] = enqueued[k]
    /\ dispatched \o queue = enqueued

\* C1 witness: two emails dispatched and a third enqueued while the drain
\* loop is suspended in a backoff wait inside sendEmail.
C1_Witness ==
    /\ Len(dispatched) >= 2
    /\ Len(queue) >= 1
    /\ \E f \in LoopFrames : f.pc = "backoff"

\* C2: at most one processQueue invocation is active in every state.
C2_OneDrainLoop == Cardinality(ActiveLoops) <= 1

\* C2 witness: an enqueue arrived while the drain loop was suspended in the
\* rate-limit wait, and only queued its email.
C2_Witness ==
    /\ isProcessing
    /\ Len(queue) >= 1
    /\ \E f \in LoopFrames : f.pc = "rateWait"

\* C3: no sendEmail call rejects; a call that has ended holds one outcome
\* with a boolean success.
C3_NeverThrows ==
    \A f \in LoopFrames :
        /\ f.pc # "threw"
        /\ f.pc = "returned" =>
              /\ Len(f.result) = 1
              /\ f.result[1].success \in BOOLEAN

\* C3 witness: a call returned after every attempt on both providers threw.
C3_Witness ==
    \E f \in LoopFrames :
        /\ Returned(f)
        /\ f.cntA = MAX_RETRIES /\ f.cntB = MAX_RETRIES /\ f.okProv = "none"

\* C4 (as claimed): when the third of three consecutive dispatch calls that
\* each ended in full retry exhaustion returns (no time has passed since the
\* last failure), shouldAttempt() returns false.
C4_OpensAfterThreeExhaustions ==
    \A f \in LoopFrames :
        LET st == engine.statusTracking
            n == Len(st)
        IN  (/\ Returned(f)
             /\ n >= failureThreshold
             /\ \A k \in (n - failureThreshold + 1)..n : ~st[k].success)
            => ~ShouldAttempt(engine.circuitBreaker, now).ret

\* C5: a call in which shouldAttempt() returned false has returned the
\* circuit-open outcome and has called no provider.
C5_OpenSkipsProviders ==
    \A f \in LoopFrames :
        (Len(f.breakerEvals) >= 1 /\ ~f.breakerEvals[1]) =>
            /\ f.pc = "returned"
            /\ f.result = <<CircuitOpenOutcome>>
            /\ ~f.result[1].success
            /\ f.cntA = 0 /\ f.cntB = 0

\* C5 witness: shouldAttempt() returned false in a dispatch call.
C5_Witness == \E f \in LoopFrames : f.breakerEvals = <<FALSE>>

\* C6: ProviderB is called only after MAX_RETRIES failed attempts on
\* ProviderA; after a successful ProviderA attempt it is never called; a call
\* that ends unsuccessful made exactly MAX_RETRIES attempts on each provider
\* and its status carries attemptCount = MAX_RETRIES.
C6_FallbackAfterExhaustion ==
    \A f \in LoopFrames :
        /\ f.cntA <= MAX_RETRIES /\ f.cntB <= MAX_RETRIES
        /\ f.cntB > 0 => (f.cntA = MAX_RETRIES /\ f.okProv # "ProviderA")
        /\ f.okProv = "ProviderA" => f.cntB = 0
        /\ (Returned(f) /\ HasProvider(f.result[1]) /\ ~f.result[1].success) =>
              /\ f.cntA = MAX_RETRIES /\ f.cntB = MAX_RETRIES
              /\ f.result[1].attemptCount = MAX_RETRIES

\* C6 witness: the fallback succeeded after the primary's five failures.
C6_Witness ==
    \E f \in LoopFrames :
        Returned(f) /\ f.cntA = MAX_RETRIES /\ f.cntB >= 1 /\ f.okProv = "ProviderB"

\* C7: the outcome of a call that contacted a provider names the provider
\* last attempted, and its attemptCount is the number of attempts made on
\* that provider alone.
C7_OutcomeOfLastProvider ==
    \A f \in LoopFrames :
        (Returned(f) /\ f.cntA > 0) =>
            /\ HasProvider(f.result[1])
            /\ f.result[1].provider = f.lastProv
            /\ f.result[1].attemptCount =
                   (IF f.lastProv = "ProviderA" THEN f.cntA ELSE f.cntB)

\* C7 witness: primary exhausted, fallback succeeded on its second attempt.
C7_Witness ==
    \E f \in LoopFrames :
        /\ Returned(f)
        /\ f.cntA = MAX_RETRIES
        /\ f.result[1] = [success |-> TRUE, provider |-> "ProviderB", attemptCount |-> 2]

\* C8: success is true exactly when some attempt of the call succeeded; when
\* every attempt on both providers failed the outcome is (false, ProviderB,
\* MAX_RETRIES, a non-empty errorMessage); a successful outcome carries no
\* errorMessage.
C8_SuccessIffAttemptSucceeded ==
    \A f \in LoopFrames :
        Returned(f) =>
            /\ f.result[1].success <=> f.okProv # "none"
            /\ (f.cntA = MAX_RETRIES /\ f.cntB = MAX_RETRIES /\ f.okProv = "none") =>
                  /\ HasError(f.result[1])
                  /\ f.result[1].errorMessage # ""
                  /\ f.result[1] = [success |-> FALSE, provider |-> "ProviderB",
                                    attemptCount |-> MAX_RETRIES,
                                    errorMessage |-> f.result[1].errorMessage]
            /\ f.result[1].success => ~HasError(f.result[1])

\* C8 witness: a successful outcome was logged, then a call failed on both
\* providers.
C8_Witness ==
    \E f \in LoopFrames :
        /\ Returned(f)
        /\ ~f.result[1].success
        /\ Len(engine.statusTracking) >= 2
        /\ engine.statusTracking[1].success

\* C9: every assignment to lastSendTime after the first is at least
\* RATE_LIMIT_MS later than the previous one.
C9_SendTimesSpaced ==
    [][(engine'.nSends > engine.nSends /\ engine.nSends >= 1) =>
          engine'.lastSendTime - engine.lastSendTime >= RATE_LIMIT_MS]_vars

\* C9 witness: a second call was suspended by rateLimit and then set
\* lastSendTime.
C9_Witness ==
    /\ engine.nSends >= 2
    /\ \E f \in LoopFrames : f.rateWaited /\ f.pc = "rateDone"

InSendEmail(f) == f.pc \in {"rateWait", "rateDone", "called", "backoff"}

\* C10 (as claimed): no two dispatch calls are in progress at once, and the
\* first provider attempts of two calls are at least RATE_LIMIT_MS apart.
C10_NoConcurrentDispatch ==
    \A i, j \in 1..MaxClicks :
        i # j =>
            /\ ~(InSendEmail(clicks[i].f) /\ InSendEmail(clicks[j].f))
            /\ (clicks[i].f.firstAttempt # Null /\ clicks[j].f.firstAttempt # Null
                /\ clicks[i].f.firstAttempt >= clicks[j].f.firstAttempt) =>
                  clicks[i].f.firstAttempt - clicks[j].f.firstAttempt >= RATE_LIMIT_MS

\* The step in which invocation i's provider ends its full retry sequence
\* without success: ProviderA's (sendEmail falls back to ProviderB) or
\* ProviderB's (sendEmail returns the failed status).
ExhaustsProvider(i) ==
    /\ loops[i].pc = "called"
    /\ loops[i].attempt = MAX_RETRIES
    /\ \/ loops[i].provider = "ProviderA" /\ loops'[i].provider = "ProviderB"
       \/ /\ loops[i].provider = "ProviderB"
          /\ loops'[i].pc = "returned"
          /\ ~loops'[i].result[1].success

\* C11 (as claimed): the step that exhausts a provider's retries raises
\* failureCount by exactly one (one recordFailure call), and a provider
\* attempt that is retried or that succeeds leaves failureCount unchanged.
C11_RecordsFailureOnExhaustion ==
    [][\A i \in 1..MaxLoops :
          /\ ExhaustsProvider(i) =>
                engine'.circuitBreaker.failureCount =
                    engine.circuitBreaker.failureCount + 1
          /\ (loops[i].pc = "called" /\ loops'[i] # loops[i] /\ ~ExhaustsProvider(i)) =>
                engine'.circuitBreaker.failureCount =
                    engine.circuitBreaker.failureCount]_vars

\* What shouldAttempt() does on the engine's breaker at the current time,
\* case by case as claimed.
C12_ShouldAttemptCases ==
    LET cb == engine.circuitBreaker
        r == ShouldAttempt(cb, now)
        elapsed == now - ToNumber(cb.lastFailureTime)
    IN  /\ cb.failureCount < failureThreshold => (r.ret /\ r.cb = cb)
        /\ (cb.failureCount >= failureThreshold /\ elapsed <= resetTimeout) =>
              (~r.ret /\ r.cb = cb)
        /\ (cb.failureCount >= failureThreshold /\ elapsed > resetTimeout) =>
              /\ r.ret
              /\ r.cb.failureCount = 0
              /\ r.cb.lastFailureTime = cb.lastFailureTime

\* C12: shouldAttempt() behaves as in C12_ShouldAttemptCases in every breaker
\* state and at every clock value reached, and failureCount only ever
\* decreases to 0, in a sendEmail step that evaluates shouldAttempt() on an
\* open breaker whose resetTimeout has elapsed (never on a success).
C12_BreakerContract ==
    /\ []C12_ShouldAttemptCases
    /\ [][engine'.circuitBreaker.failureCount < engine.circuitBreaker.failureCount =>
            /\ engine.circuitBreaker.failureCount >= failureThreshold
            /\ now - ToNumber(engine.circuitBreaker.lastFailureTime) > resetTimeout
            /\ engine'.circuitBreaker.failureCount = 0
            /\ \E i \in 1..MaxLoops :
                  /\ loops[i].pc = "rateDone"
                  /\ Len(loops'[i].breakerEvals) = 1]_vars

\* C12 witness: the breaker was open, its timeout elapsed, and a
\* shouldAttempt() call reset failureCount to 0 and let the call through.
C12_Witness ==
    /\ engine.circuitBreaker.failureCount = 0
    /\ engine.circuitBreaker.lastFailureTime # Null
    /\ \E f \in LoopFrames : f.breakerEvals = <<TRUE>> /\ f.pc = "called"

\* C13: a call completes rateLimit at most once and evaluates
\* shouldAttempt() at most once, the latter only after the former; a call
\* that has attempted a provider or has returned did each exactly once, and
\* its one breaker evaluation preceded its first provider attempt: retries
\* and the fallback do not evaluate the breaker again.
C13_OneThrottleOneBreakerCheck ==
    \A f \in LoopFrames :
        /\ f.rateSteps <= 1
        /\ Len(f.breakerEvals) <= 1
        /\ Len(f.breakerEvals) = 1 => f.rateSteps = 1
        /\ (f.cntA + f.cntB > 0) => (f.rateSteps = 1 /\ f.breakerEvals = <<TRUE>>)
        /\ f.pc = "returned" => (f.rateSteps = 1 /\ Len(f.breakerEvals) = 1)

\* C13 witness: the fallback provider is being attempted in a call that
\* passed the breaker check, although the breaker has since reached its
\* threshold.
C13_Witness ==
    \E f \in LoopFrames :
        /\ f.pc = "called" /\ f.provider = "ProviderB"
        /\ f.breakerEvals = <<TRUE>>
        /\ engine.circuitBreaker.failureCount >= failureThreshold

\* The delays of the claim, for failed attempts 1..4.
BackoffTable == <<1000, 2000, 4000, 8000>>

\* C14: a failed attempt k < MAX_RETRIES starts a timer of
\* RETRY_DELAY_MS * 2^(k-1) ms (1000, 2000, 4000, 8000), and attempt k+1 on
\* the same provider is made when that timer fires, not before it is due; a
\* failed attempt MAX_RETRIES starts no timer and is followed by no further
\* attempt on that provider.
C14_BackoffDelays ==
    [][\A i \in 1..MaxLoops :
          /\ (loops[i].pc = "called" /\ loops'[i].pc = "backoff") =>
                /\ loops[i].attempt < MAX_RETRIES
                /\ loops'[i].wake - now = BackoffTable[loops[i].attempt]
                /\ loops'[i].attempt = loops[i].attempt
                /\ loops'[i].provider = loops[i].provider
          /\ (loops[i].pc = "backoff" /\ loops'[i] # loops[i]) =>
                /\ now >= loops[i].wake
                /\ loops'[i].pc = "called"
                /\ loops'[i].provider = loops[i].provider
                /\ loops'[i].attempt = loops[i].attempt + 1
          /\ (loops[i].pc = "called" /\ loops[i].attempt = MAX_RETRIES
              /\ loops'[i] # loops[i]) =>
                /\ loops'[i].pc # "backoff"
                /\ loops'[i].waits = loops[i].waits
                /\ ~(loops'[i].pc = "called"
                     /\ loops'[i].provider = loops[i].provider)]_vars

\* C14 witness: the fourth attempt failed and its 8000 ms timer is pending.
C14_Witness ==
    \E f \in LoopFrames :
        f.pc = "backoff" /\ f.attempt = 4 /\ f.wake = now + 8000

\* C15 (as claimed): the outcome log holds exactly the outcomes that the
\* engine's sendEmail calls returned, circuit-open outcomes included, one
\* entry per call in completion order.
C15_LogHoldsEveryOutcome == engine.statusTracking = engine.outcomes

\* C16: every outcome a click's sendEmail call returned carries a provider
\* name and an integer attemptCount with 1 <= attemptCount <= MAX_RETRIES.
C16_OutcomeWellFormed ==
    \A i \in 1..MaxClicks :
        clicks[i].f.pc \in {"returned", "done"} =>
            /\ Len(clicks[i].f.result) = 1
            /\ HasProvider(clicks[i].f.result[1])
            /\ clicks[i].f.result[1].provider \in {"ProviderA", "ProviderB"}
            /\ "attemptCount" \in DOMAIN clicks[i].f.result[1]
            /\ clicks[i].f.result[1].attemptCount \in 1..MAX_RETRIES

\* C16 witness: the handler received the outcome of a call that failed on
\* both providers.
C16_Witness ==
    \E i \in 1..MaxClicks :
        /\ clicks[i].f.pc = "done"
        /\ ~clicks[i].f.result[1].success
        /\ clicks[i].f.cntB = MAX_RETRIES

\* The attempts and backoff waits of a call are bounded.
C17_Bounded ==
    \A f \in LoopFrames :
        /\ f.cntA <= MAX_RETRIES /\ f.cntB <= MAX_RETRIES
        /\ f.cntA + f.cntB <= 2 * MAX_RETRIES
        /\ f.waits <= 2 * (MAX_RETRIES - 1)

\* C17: a call makes at most MAX_RETRIES attempts on each provider, at most
\* 2 * MAX_RETRIES attempts and 2 * (MAX_RETRIES - 1) backoff waits in all,
\* and, timers firing and attempts settling, every call in progress
\* eventually returns, whatever attempts fail.
C17_Terminates ==
    /\ []C17_Bounded
    /\ \A i \in 1..MaxLoops :
          InSendEmail(loops[i]) ~> (loops[i].pc = "returned")

\* C17 witness: a call returned after 10 attempts and 8 backoff waits.
C17_Witness ==
    \E f \in LoopFrames :
        /\ f.pc = "returned"
        /\ f.cntA + f.cntB = 2 * MAX_RETRIES
        /\ f.waits = 2 * (MAX_RETRIES - 1)

\* C18: under the event loop's fairness every enqueued email is eventually
\* passed to sendEmail; a drain loop in progress eventually ends with the
\* queue empty and isProcessing false; and an enqueue made while no loop is
\* flagged starts one that dispatches its email at once.
C18_QueueDrains ==
    /\ \A k \in 1..LiveMaxEnq :
          (Len(enqueued) >= k) ~> (Len(dispatched) >= k)
    /\ isProcessing ~> (~isProcessing /\ queue = <<>> /\ ActiveLoops = {})
    /\ [][(~isProcessing /\ Len(enqueued') > Len(enqueued)) =>
             /\ isProcessing'
             /\ ActiveLoops' # {}
             /\ dispatched' = Append(dispatched, enqueued'[Len(enqueued')])]_vars

\* C18 witness: two or more emails were enqueued, all were dispatched and
\* answered, and the drain loop has ended.
C18_Witness ==
    /\ ~isProcessing
    /\ queue = <<>>
    /\ Len(enqueued) >= 2
    /\ Len(dispatched) = Len(enqueued)
    /\ Len(engine.outcomes) = Len(enqueued)

\* C19: whenever isProcessing is false the queue is empty; a non-empty queue
\* has an active processQueue invocation and isProcessing set.
C19_IdleImpliesEmpty ==
    /\ ~isProcessing => queue = <<>>
    /\ queue # <<>> => (isProcessing /\ ActiveLoops # {})
    /\ isProcessing <=> ActiveLoops # {}

\* C19 witness: a drain loop has ended (isProcessing is false again) after
\* dispatching an email that was enqueued while the loop was suspended.
C19_Witness ==
    /\ ~isProcessing
    /\ queue = <<>>
    /\ Len(dispatched) >= 2
    /\ engine.nSends >= 2

====
